---------------------------- MODULE Spec2Model ----------------------------
(***************************************************************************)
(* The assassin game server: the roster written by scripts/parse.py, the   *)
(* Players and Kills tables of the game database, and the request handlers *)
(* of assassin.py (die, home, stats, admin) running as concurrent requests *)
(* over one SQLite database, each on a connection of its own.              *)
(***************************************************************************)
EXTENDS Integers, Sequences, FiniteSets, TLC

\* Largest roster the model builds.
MaxPlayers == 3
\* Number of /die requests that may be in flight at once.
MaxReqs == 2
\* Cap on the rows of the Kills table.
MaxKills == 3
\* The clock is followed up to this time.
MaxClock == 2

\* The result of fetchone() when the query has no row.
NoRow == <<>>
\* The value of a local the handler has not assigned yet.
Unset == 0
\* A user id that is in no row of Players.
Stranger == 0
\* Handler slots of /die.
Reqs == 1..MaxReqs
\* No connection holds the database's write lock.
NoWriter == 0
\* The template variables of a read request before any query has run.
NoView == [user |-> Unset, player |-> NoRow, num_alive |-> Unset, kills |-> <<>>,
           top_scores |-> <<>>, recent_deaths |-> <<>>, num_dead |-> Unset,
           players |-> <<>>]

\* The script has written no players.dat.
NoFile == <<>>
\* A request that carries no proof of the elimination.
NoProof == ""

VARIABLES
  folder,    \* parse.py: the files names and words of the folder sys.argv[1]
  names,     \* parse.py: the list names (line 16, line 20)
  words,     \* parse.py: the list words (line 17)
  ids,       \* parse.py: the list ids (line 19, line 23)
  output,    \* parse.py: <<the rows written to players.dat>>, or NoFile
  ppc,       \* parse.py: the line the script is at
  players_dat, \* the roster file parse.py wrote, as loaded into Players
  db,        \* the committed database: [Players, Kills]
  wdb,       \* the database as the connection holding the write lock sees it
  writer,    \* the /die request holding the write lock, or NoWriter
  pc,        \* pc[r]: the line of die() request r is at
  sunetid,   \* sunetid[r]: the authenticated user of request r
  proof,     \* proof[r]: the secret the form of request r carries, or NoProof
  row,       \* row[r]: <<the row fetched at line 122>>, or NoRow
  latitude,  \* latitude[r], line 126
  longitude, \* longitude[r], line 127
  outbox,    \* the mails handed to send_email, in order
  rpc,       \* the line the read request (home, stats or admin) is at
  view,      \* what the read request has fetched so far for its template
  clock      \* the time datetime.now() returns

script == <<folder, names, words, ids, output, ppc>>
dievars == <<pc, sunetid, proof, row, latitude, longitude>>
vars == <<script, players_dat, db, wdb, writer, pc, sunetid, proof, row, latitude,
          longitude, outbox, rpc, view, clock>>

-----------------------------------------------------------------------------
(* scripts/parse.py: the roster *)

\* The orders random.shuffle can leave a list of the ids 1..n in.
Shuffles(n) == {s \in [1..n -> 1..n] : \A i, j \in 1..n : s[i] = s[j] => i = j}

\* The words a line of the words file may hold.
Words == {"w", "v"}

\* The name on the line "id,name" of the entrant with the given id.
Name(id) == <<"name of", id>>

\* The files of at most n lines, each drawn from the set S.
Files(S, n) == UNION {[1..k -> S] : k \in 0..n}

\* The names files of the model: lines "id,name", as <<id, name>>; two lines
\* may hold the same id.
NamesFiles == Files({<<id, Name(id)>> : id \in 1..MaxPlayers}, MaxPlayers)

\* The words files of the model.
WordsFiles == Files(Words, MaxPlayers)

\* The words files that repeat one word.
OneWordFiles == Files({"w"}, MaxPlayers)

\* Lines 7-13: the lists readlist may return for a file of non-empty lines:
\* its lines in any order.
ReadList(file) == {[i \in 1..Len(file) |-> file[s[i]]] : s \in Shuffles(Len(file))}

\* Line 19: the first field of every line.
Ids(lines) == [i \in 1..Len(lines) |-> lines[i][1]]

\* Line 20 with the names taken in the opposite order of the ids.
NameFieldsReversed(lines) == [i \in 1..Len(lines) |-> lines[Len(lines) + 1 - i][2]]

\* Line 20: the second field of every line.
NameFields(lines) == [i \in 1..Len(lines) |-> lines[i][2]]

\* A loop that appends the last id instead of the first.
LoopedOnLast(l) == Append(l, l[Len(l)])

\* Line 23: ids.append(ids[0]).
Looped(l) == Append(l, l[1])

Min(a, b) == IF a < b THEN a ELSE b

\* Lines 27-32: the rows written to players.dat from the looped list l of
\* ids, the names nms and the words wds: one per index of nms, target =
\* l[i+1], alive = True, until words[i] raises IndexError.
PlayersDat(l, nms, wds) ==
  [i \in 1..Min(Len(nms), Len(wds)) |->
     [PlayerID |-> l[i], Name |-> nms[i], TargetID |-> l[i + 1],
      Secret |-> wds[i], Alive |-> TRUE]]

\* The Players table loaded from players.dat, keyed by PlayerID.
LoadPlayers(dat) ==
  [p \in {dat[i].PlayerID : i \in 1..Len(dat)} |->
     LET i == CHOOSE j \in 1..Len(dat) : dat[j].PlayerID = p
     IN  [Name |-> dat[i].Name, TargetID |-> dat[i].TargetID,
          Secret |-> dat[i].Secret, Alive |-> dat[i].Alive]]

\* No folder is being parsed.
NoFolder == [names |-> <<>>, words |-> <<>>]

\* The state before line 16, for the folder the script is run on; no game is
\* being served.
InitRoster ==
  /\ folder \in [names : NamesFiles, words : WordsFiles]
  /\ names = <<>>
  /\ words = <<>>
  /\ ids = <<>>
  /\ output = NoFile
  /\ ppc = "l16"
  /\ players_dat = <<>>
  /\ db = [Players |-> <<>>, Kills |-> <<>>]
  /\ wdb = db
  /\ writer = NoWriter
  /\ clock = 0
  /\ pc = [r \in Reqs |-> "idle"]
  /\ sunetid = [r \in Reqs |-> Stranger]
  /\ proof = [r \in Reqs |-> NoProof]
  /\ row = [r \in Reqs |-> NoRow]
  /\ latitude = [r \in Reqs |-> Unset]
  /\ longitude = [r \in Reqs |-> Unset]
  /\ outbox = <<>>
  /\ rpc = "idle"
  /\ view = NoView

\* Line 16: names = readlist(folder/names).
Parse16 ==
  /\ ppc = "l16"
  /\ names' \in ReadList(folder.names)
  /\ ppc' = "l17"
  /\ UNCHANGED <<clock, folder, words, ids, output, players_dat, db, wdb, writer, dievars, outbox, rpc, view>>

\* A line 17 that puts the words in the order the shuffle of line 16 put the
\* names in.
Parse17SameShuffle ==
  /\ ppc = "l17"
  /\ \E s \in Shuffles(Len(folder.words)) :
       /\ Len(folder.names) = Len(folder.words) =>
            names = [i \in 1..Len(folder.names) |-> folder.names[s[i]]]
       /\ words' = [i \in 1..Len(folder.words) |-> folder.words[s[i]]]
  /\ ppc' = "l19"
  /\ UNCHANGED <<clock, folder, names, ids, output, players_dat, db, wdb, writer, dievars, outbox, rpc, view>>

\* Line 17: words = readlist(folder/words).
Parse17 ==
  /\ ppc = "l17"
  /\ words' \in ReadList(folder.words)
  /\ ppc' = "l19"
  /\ UNCHANGED <<clock, folder, names, ids, output, players_dat, db, wdb, writer, dievars, outbox, rpc, view>>

\* Lines 19-23: the lines are split into ids and names and the ids looped;
\* ids[0] raises IndexError on an empty list.
Parse19 ==
  /\ ppc = "l19"
  /\ ids' = IF names = <<>> THEN <<>> ELSE Looped(Ids(names))
  /\ names' = NameFields(names)
  /\ ppc' = IF names = <<>> THEN "IndexError" ELSE "l25"
  /\ UNCHANGED <<clock, folder, words, output, players_dat, db, wdb, writer, dievars, outbox, rpc, view>>

\* Lines 25-32: players.dat is opened for writing and the rows are written;
\* words[i] raises IndexError when the words run out, after the rows before
\* it have been written.
Parse25 ==
  /\ ppc = "l25"
  /\ output' = <<PlayersDat(ids, names, words)>>
  /\ ppc' = IF Len(words) < Len(names) THEN "IndexError" ELSE "done"
  /\ UNCHANGED <<clock, folder, names, words, ids, players_dat, db, wdb, writer, dievars, outbox, rpc, view>>

NextRoster == Parse16 \/ Parse17 \/ Parse19 \/ Parse25

\* One run of scripts/parse.py on a names file and a words file.
SpecRoster == InitRoster /\ [][NextRoster]_vars

-----------------------------------------------------------------------------
(* assassin.py: the database *)

PlayerIDs(d) == DOMAIN d.Players

\* "SELECT COUNT(*) FROM Players WHERE Alive = 'True'"
NumAlive(d) == Cardinality({p \in PlayerIDs(d) : d.Players[p].Alive})

\* "SELECT COUNT(*) FROM Players WHERE Alive = 'False'"
NumDead(d) == Cardinality({p \in PlayerIDs(d) : ~d.Players[p].Alive})

\* The names file of a game of n entrants.
Entrants(n) == [i \in 1..n |-> <<i, Name(i)>>]

\* A game starts from the roster parse.py wrote for n entrants and a words
\* file of F with a word for each; the script has exited.
InitFrom(F) ==
  /\ \E n \in 1..MaxPlayers : \E wf \in {f \in F : Len(f) = n} :
       \E lines \in ReadList(Entrants(n)), wds \in ReadList(wf) :
         players_dat = LoadPlayers(PlayersDat(Looped(Ids(lines)), NameFields(lines), wds))
  /\ folder = NoFolder
  /\ names = <<>>
  /\ words = <<>>
  /\ ids = <<>>
  /\ output = NoFile
  /\ ppc = "exit"
  /\ db = [Players |-> players_dat, Kills |-> <<>>]
  /\ wdb = db
  /\ writer = NoWriter
  /\ clock = 0
  /\ pc = [r \in Reqs |-> "idle"]
  /\ sunetid = [r \in Reqs |-> Stranger]
  /\ proof = [r \in Reqs |-> NoProof]
  /\ row = [r \in Reqs |-> NoRow]
  /\ latitude = [r \in Reqs |-> Unset]
  /\ longitude = [r \in Reqs |-> Unset]
  /\ outbox = <<>>
  /\ rpc = "idle"
  /\ view = NoView

\* The games of the specifications below: every secret is the same word.
Init == InitFrom(OneWordFiles)

\* The games in which the secrets are any words.
InitWord == InitFrom(WordsFiles)

-----------------------------------------------------------------------------
(* assassin.py: die(), one action per statement that touches the database *)

\* The values request.form['latitude'] takes: empty, a number, text that is
\* no number.
Latitudes == {"", "12", "x"}

\* The values request.form['longitude'] takes: empty, text that is no number.
Longitudes == {"", "x"}

\* float(s) raises ValueError.
FloatRaises(s) == s \notin {"", "12"}

\* float(s) for the numerals of FormValues.
Float(s) == IF s = "12" THEN 12 ELSE 0

\* The value lines 126-127 store for a form field that is empty.
NotProvided == -10000

\* Lines 126-127: float(field) if field != '' else -10000.
Coordinate(s) == IF s # "" THEN Float(s) ELSE NotProvided

\* A SELECT list that takes Name and Secret from dead instead of next.
DieRowOfDead(d, killer, dead) ==
  [PlayerID |-> killer, TargetID |-> d.Players[dead].TargetID,
   Name |-> d.Players[dead].Name, Secret |-> d.Players[dead].Secret]

\* A SELECT list that takes dead.PlayerID where killer.PlayerID belongs.
DieRowOfVictim(d, killer, dead) ==
  [PlayerID |-> dead, TargetID |-> d.Players[dead].TargetID,
   Name |-> d.Players[d.Players[dead].TargetID].Name,
   Secret |-> d.Players[d.Players[dead].TargetID].Secret]

\* Line 115: the columns selected for a row of the join: killer.PlayerID,
\* dead.TargetID, next.Name and next.Secret, where next.PlayerID =
\* dead.TargetID.
DieRow(d, killer, dead) ==
  [PlayerID |-> killer, TargetID |-> d.Players[dead].TargetID,
   Name |-> d.Players[d.Players[dead].TargetID].Name,
   Secret |-> d.Players[d.Players[dead].TargetID].Secret]

\* DieRows without the join condition killer.TargetID = dead.PlayerID.
DieRowsAnyKiller(d, v) ==
  {DieRow(d, killer, v) :
     killer \in {k \in PlayerIDs(d) : v \in PlayerIDs(d) /\ d.Players[v].Alive}}

\* DieRows without the condition dead.Alive = 'True'.
DieRowsDeadToo(d, v) ==
  {DieRow(d, killer, v) :
     killer \in {k \in PlayerIDs(d) : v \in PlayerIDs(d) /\ d.Players[k].TargetID = v}}

\* Lines 114-121: the rows of the three-way self-join of Players for victim v:
\* killer.TargetID = dead.PlayerID, next.PlayerID = dead.TargetID,
\* dead.PlayerID = v and dead.Alive = 'True'.
DieRows(d, v) ==
  {DieRow(d, killer, dead) :
     <<killer, dead>> \in
       {kd \in PlayerIDs(d) \X PlayerIDs(d) :
          /\ d.Players[kd[1]].TargetID = kd[2]
          /\ d.Players[kd[2]].TargetID \in PlayerIDs(d)
          /\ kd[2] = v
          /\ d.Players[kd[2]].Alive}}

\* An UPDATE of line 129 that also sets Alive = 'True' in every other row.
SetDeadOthersAlive(d, v) ==
  [d EXCEPT !.Players = [p \in DOMAIN @ |-> [@[p] EXCEPT !.Alive = (p # v)]]]

\* An UPDATE of line 129 that matches no row: the victim stays alive.
SetDeadNobody(d, v) == d

\* Line 129: UPDATE Players SET Alive = 'False' WHERE PlayerID = sunetid.
SetDead(d, v) == [d EXCEPT !.Players[v].Alive = FALSE]

\* An UPDATE of line 130 that matches no row: the killer keeps the old target.
SetTargetKept(d, k, t) == d

\* An UPDATE of line 130 that makes the killer their own target.
SetTargetSelf(d, k, t) == [d EXCEPT !.Players[k].TargetID = k]

\* An UPDATE of line 130 without its WHERE clause: every row is retargeted.
SetTargetOfAll(d, k, t) ==
  [d EXCEPT !.Players = [p \in DOMAIN @ |-> [@[p] EXCEPT !.TargetID = t]]]

\* Line 130: UPDATE Players SET TargetID = target_id WHERE PlayerID = killer_id.
SetTarget(d, k, t) == [d EXCEPT !.Players[k].TargetID = t]

\* An INSERT that puts the new row before the rows Kills has.
InsertKillFirst(d, k, v, t, lat, lon) ==
  [d EXCEPT !.Kills = <<[KillerID |-> k, VictimID |-> v, Time |-> t,
                         Latitude |-> lat, Longitude |-> lon]>> \o @]

\* An INSERT that stamps the row with the time left, which falls as time passes.
InsertKillCountdown(d, k, v, t, lat, lon) ==
  [d EXCEPT !.Kills = Append(@, [KillerID |-> k, VictimID |-> v, Time |-> MaxClock - t,
                                 Latitude |-> lat, Longitude |-> lon])]

\* Lines 131-132: INSERT INTO Kills VALUES (killer_id, sunetid, datetime.now(),
\* latitude, longitude).
InsertKill(d, k, v, t, lat, lon) ==
  [d EXCEPT !.Kills = Append(@, [KillerID |-> k, VictimID |-> v, Time |-> t,
                                 Latitude |-> lat, Longitude |-> lon])]

\* A handler that has raised: TypeError (line 124, no row), ValueError (lines
\* 126-127), sqlite3.OperationalError (database is locked), another
\* sqlite3.Error of a statement of lines 130-133, or OSError (line 245,
\* sendmail cannot be started).
Raised == {"TypeError", "ValueError", "OperationalError", "Error", "OSError"}

\* The locals of a handler slot that runs no request.
Cleared(f, r) == [f EXCEPT ![r] = Unset]

\* Lines 112-127 for the request of user v with the given form fields, of
\* which die() reads latitude and longitude and no other: the
\* SELECT reads the committed database, fetchone() takes one of its rows in
\* an order SQL leaves open, row['PlayerID'] raises TypeError on no row and
\* float() raises ValueError on a malformed field.
Die114(r, v, lat, lon, prf) ==
  /\ pc[r] = "idle"
  /\ sunetid' = [sunetid EXCEPT ![r] = v]
  /\ proof' = [proof EXCEPT ![r] = prf]
  /\ IF DieRows(db, v) = {}
        THEN /\ row' = [row EXCEPT ![r] = NoRow]
             /\ latitude' = [latitude EXCEPT ![r] = Unset]
             /\ longitude' = [longitude EXCEPT ![r] = Unset]
             /\ pc' = [pc EXCEPT ![r] = "TypeError"]
        ELSE /\ \E rw \in DieRows(db, v) : row' = [row EXCEPT ![r] = <<rw>>]
             /\ IF FloatRaises(lat) \/ FloatRaises(lon)
                  THEN /\ latitude' = [latitude EXCEPT ![r] = Unset]
                       /\ longitude' = [longitude EXCEPT ![r] = Unset]
                       /\ pc' = [pc EXCEPT ![r] = "ValueError"]
                  ELSE /\ latitude' = [latitude EXCEPT ![r] = Coordinate(lat)]
                       /\ longitude' = [longitude EXCEPT ![r] = Coordinate(lon)]
                       /\ pc' = [pc EXCEPT ![r] = "l129"]
  /\ UNCHANGED <<clock, script, players_dat, db, wdb, writer, outbox, rpc, view>>

\* Line 129: the first UPDATE opens the connection's transaction and takes the
\* database's write lock; the row is changed in the connection's own view.
Die129(r) ==
  /\ pc[r] = "l129"
  /\ writer = NoWriter
  /\ Len(db.Kills) < MaxKills
  /\ writer' = r
  /\ wdb' = SetDead(db, sunetid[r])
  /\ pc' = [pc EXCEPT ![r] = "l130"]
  /\ UNCHANGED <<clock, script, players_dat, db, sunetid, proof, row, latitude, longitude, outbox, rpc, view>>

\* Line 129 while another connection holds the write lock until the busy
\* timeout runs out: sqlite3.OperationalError, the handler ends.
Busy(r) ==
  /\ pc[r] = "l129"
  /\ writer \notin {NoWriter, r}
  /\ pc' = [pc EXCEPT ![r] = "OperationalError"]
  /\ UNCHANGED <<clock, script, players_dat, db, wdb, writer, sunetid, proof, row, latitude, longitude, outbox, rpc, view>>

\* Line 130.
Die130(r) ==
  /\ pc[r] = "l130"
  /\ wdb' = SetTarget(wdb, row[r][1].PlayerID, row[r][1].TargetID)
  /\ pc' = [pc EXCEPT ![r] = "l131"]
  /\ UNCHANGED <<clock, script, players_dat, db, writer, sunetid, proof, row, latitude, longitude, outbox, rpc, view>>

\* Lines 131-132.
Die131(r) ==
  /\ pc[r] = "l131"
  /\ wdb' = InsertKill(wdb, row[r][1].PlayerID, sunetid[r], clock,
                     latitude[r], longitude[r])
  /\ pc' = [pc EXCEPT ![r] = "l133"]
  /\ UNCHANGED <<clock, script, players_dat, db, writer, sunetid, proof, row, latitude, longitude, outbox, rpc, view>>

\* A commit that publishes the two UPDATEs and loses the INSERT.
CommittedWithoutInsert(d, w) == [w EXCEPT !.Kills = d.Kills]

\* What conn.commit() makes of the committed database, given the connection's view.
Committed(d, w) == w

\* Line 133: conn.commit() publishes the transaction and frees the write lock.
Die133(r) ==
  /\ pc[r] = "l133"
  /\ db' = Committed(db, wdb)
  /\ wdb' = db'
  /\ writer' = NoWriter
  /\ pc' = [pc EXCEPT ![r] = "l135"]
  /\ UNCHANGED <<clock, script, players_dat, sunetid, proof, row, latitude, longitude, outbox, rpc, view>>

\* A rollback that leaves the statements already executed in place.
RolledBackPartly(d, w) == w

\* What is left of the committed database when a connection is closed with
\* its transaction open: SQLite rolls the transaction back.
RolledBack(d, w) == d

\* A statement of lines 130-133 raises (or the CGI process is killed): the
\* handler ends without commit and its connection is closed.
Raise(r) ==
  /\ pc[r] \in {"l130", "l131", "l133"}
  /\ db' = RolledBack(db, wdb)
  /\ wdb' = db'
  /\ writer' = NoWriter
  /\ pc' = [pc EXCEPT ![r] = "Error"]
  /\ UNCHANGED <<clock, script, players_dat, sunetid, proof, row, latitude, longitude, outbox, rpc, view>>

\* Lines 135-138 and 223-231: the mail notify_victory or notify_death hands
\* to send_email; the template of notify_death is given victim and secret.
Mail(killer_id, target_id, name, secret) ==
  IF killer_id = target_id
    THEN [To |-> killer_id, Subject |-> "Congratulations!"]
    ELSE [To |-> killer_id, Subject |-> "Target Successfully Eliminated",
          victim |-> name, secret |-> secret]

\* Lines 135-140: the mail is sent and the handler returns its redirect.
Die135(r) ==
  /\ pc[r] = "l135"
  /\ outbox' = Append(outbox, Mail(row[r][1].PlayerID, row[r][1].TargetID, row[r][1].Name, row[r][1].Secret))
  /\ pc' = [pc EXCEPT ![r] = "idle"]
  /\ sunetid' = Cleared(sunetid, r)
  /\ proof' = [proof EXCEPT ![r] = NoProof]
  /\ row' = [row EXCEPT ![r] = NoRow]
  /\ latitude' = Cleared(latitude, r)
  /\ longitude' = Cleared(longitude, r)
  /\ UNCHANGED <<clock, script, players_dat, db, wdb, writer, rpc, view>>

\* A failure of send_email that undoes line 129 in the committed database.
Die135RaisesAndRevives(r) ==
  /\ pc[r] = "l135"
  /\ outbox' = Append(outbox, Mail(row[r][1].PlayerID, row[r][1].TargetID, row[r][1].Name, row[r][1].Secret))
  /\ pc' = [pc EXCEPT ![r] = "OSError"]
  /\ db' = [db EXCEPT !.Players[sunetid[r]].Alive = TRUE]
  /\ wdb' = db'
  /\ UNCHANGED <<clock, script, players_dat, writer, sunetid, proof, row, latitude, longitude, rpc, view>>

\* Lines 135-138 when send_email raises: the mail is handed to send_email,
\* Popen (line 245) cannot start sendmail and the OSError leaves die().
Die135Raises(r) ==
  /\ pc[r] = "l135"
  /\ outbox' = Append(outbox, Mail(row[r][1].PlayerID, row[r][1].TargetID, row[r][1].Name, row[r][1].Secret))
  /\ pc' = [pc EXCEPT ![r] = "OSError"]
  /\ UNCHANGED <<clock, script, players_dat, db, wdb, writer, sunetid, proof, row, latitude, longitude, rpc, view>>

\* The exception a handler raised reaches Flask, which answers 500; the
\* handler's locals are gone.
Die500(r) ==
  /\ pc[r] \in Raised
  /\ pc' = [pc EXCEPT ![r] = "idle"]
  /\ sunetid' = Cleared(sunetid, r)
  /\ proof' = [proof EXCEPT ![r] = NoProof]
  /\ row' = [row EXCEPT ![r] = NoRow]
  /\ latitude' = Cleared(latitude, r)
  /\ longitude' = Cleared(longitude, r)
  /\ UNCHANGED <<clock, script, players_dat, db, wdb, writer, outbox, rpc, view>>

-----------------------------------------------------------------------------
(* assassin.py: the read handlers. Each query is a statement of its own on  *)
(* a connection without a transaction: it reads the database as committed   *)
(* when it runs.                                                            *)

\* settings.stats_row_limit
stats_row_limit == 10

Reverse(q) == [i \in 1..Len(q) |-> q[Len(q) + 1 - i]]

\* The first n elements of q (LIMIT n).
Limit(q, n) == SubSeq(q, 1, IF Len(q) < n THEN Len(q) ELSE n)

IsKiller(rec, u) == rec.KillerID = u

\* A home() that answers from the roster as it was loaded.
HomePlayerAsLoaded(d, u) ==
  IF u \in DOMAIN players_dat
    THEN <<[PlayerID |-> u, TargetID |-> players_dat[u].TargetID,
            Alive |-> players_dat[u].Alive,
            TargetSecret |-> players_dat[players_dat[u].TargetID].Secret,
            TargetName |-> players_dat[players_dat[u].TargetID].Name]>>
    ELSE NoRow

\* Lines 89-94: the player's row joined with the row of the player's target.
HomePlayer(d, u) ==
  IF u \in PlayerIDs(d) /\ d.Players[u].TargetID \in PlayerIDs(d)
    THEN <<[PlayerID |-> u, TargetID |-> d.Players[u].TargetID,
            Alive |-> d.Players[u].Alive,
            TargetSecret |-> d.Players[d.Players[u].TargetID].Secret,
            TargetName |-> d.Players[d.Players[u].TargetID].Name]>>
    ELSE NoRow

\* Lines 100-106: the victims of u's kills, latest first.
HomeKills(d, u) ==
  LET mine == SelectSeq(d.Kills, LAMBDA rec : IsKiller(rec, u))
  IN  Reverse([i \in 1..Len(mine) |-> mine[i].VictimID])

\* A Count(*) that counts all rows of Kills for every killer.
ScoreRowsOfAll(d) ==
  {[Name |-> d.Players[k].Name, Alive |-> d.Players[k].Alive,
    Count |-> Len(d.Kills)] :
     k \in {d.Kills[i].KillerID : i \in 1..Len(d.Kills)}}

\* Lines 146-153, before ORDER BY: one row per KillerID of Kills.
ScoreRows(d) ==
  {[Name |-> d.Players[k].Name, Alive |-> d.Players[k].Alive,
    Count |-> Cardinality({i \in 1..Len(d.Kills) : d.Kills[i].KillerID = k})] :
     k \in {d.Kills[i].KillerID : i \in 1..Len(d.Kills)}}

\* The sequences that list every element of the set S once.
Orderings(S) ==
  {q \in [1..Cardinality(S) -> S] : \A i, j \in 1..Cardinality(S) : q[i] = q[j] => i = j}

\* Lines 146-154: ORDER BY Count DESC LIMIT ?; rows of equal Count come in
\* an order SQL leaves open.
TopScores(d) ==
  {Limit(q, stats_row_limit) :
     q \in {o \in Orderings(ScoreRows(d)) :
              \A i \in 1..(Len(o) - 1) : o[i].Count >= o[i + 1].Count}}

\* Lines 156-163: the victims of Kills, latest first.
RecentDeaths(d) ==
  Limit(Reverse([i \in 1..Len(d.Kills) |-> d.Kills[i].VictimID]), stats_row_limit)

\* Lines 183-210: one row per player, with the player's score.
AdminPlayers(d) ==
  [p \in PlayerIDs(d) |->
     [Target |-> d.Players[p].TargetID, Alive |-> d.Players[p].Alive,
      Score |-> Cardinality({i \in 1..Len(d.Kills) : d.Kills[i].KillerID = p})]]

\* home(), lines 87-94, for the user u.
Home89(u) ==
  /\ rpc = "idle"
  /\ view' = [NoView EXCEPT !.user = u, !.player = HomePlayer(db, u)]
  /\ rpc' = "h95"
  /\ UNCHANGED <<clock, script, players_dat, db, wdb, writer, dievars, outbox>>

\* home(), lines 95-99.
Home95 ==
  /\ rpc = "h95"
  /\ view' = [view EXCEPT !.num_alive = NumAlive(db)]
  /\ rpc' = IF view.player # NoRow THEN "h100" ELSE "h108"
  /\ UNCHANGED <<clock, script, players_dat, db, wdb, writer, dievars, outbox>>

\* home(), lines 100-106.
Home100 ==
  /\ rpc = "h100"
  /\ view' = [view EXCEPT !.kills = HomeKills(db, view.user)]
  /\ rpc' = "h108"
  /\ UNCHANGED <<clock, script, players_dat, db, wdb, writer, dievars, outbox>>

\* stats(), lines 144-154.
Stats146 ==
  /\ rpc = "idle"
  /\ \E ts \in TopScores(db) : view' = [NoView EXCEPT !.top_scores = ts]
  /\ rpc' = "s156"
  /\ UNCHANGED <<clock, script, players_dat, db, wdb, writer, dievars, outbox>>

\* stats(), lines 156-163.
Stats156 ==
  /\ rpc = "s156"
  /\ view' = [view EXCEPT !.recent_deaths = RecentDeaths(db)]
  /\ rpc' = "s165"
  /\ UNCHANGED <<clock, script, players_dat, db, wdb, writer, dievars, outbox>>

\* stats(), lines 165-166.
Stats165 ==
  /\ rpc = "s165"
  /\ view' = [view EXCEPT !.num_alive = NumAlive(db)]
  /\ rpc' = "s168"
  /\ UNCHANGED <<clock, script, players_dat, db, wdb, writer, dievars, outbox>>

\* stats(), lines 168-169.
Stats168 ==
  /\ rpc = "s168"
  /\ view' = [view EXCEPT !.num_dead = NumDead(db)]
  /\ rpc' = "s171"
  /\ UNCHANGED <<clock, script, players_dat, db, wdb, writer, dievars, outbox>>

\* admin(), lines 181-210: one query.
Admin183 ==
  /\ rpc = "idle"
  /\ view' = [NoView EXCEPT !.players = <<AdminPlayers(db)>>]
  /\ rpc' = "a212"
  /\ UNCHANGED <<clock, script, players_dat, db, wdb, writer, dievars, outbox>>

\* A render_template that empties the Kills table on its way out.
RenderAndForget ==
  /\ rpc \in {"h108", "s171", "a212"}
  /\ rpc' = "idle"
  /\ view' = NoView
  /\ db' = [db EXCEPT !.Kills = <<>>]
  /\ wdb' = db'
  /\ UNCHANGED <<clock, script, players_dat, writer, dievars, outbox>>

\* Lines 108, 171-175, 212-213: render_template; the request is over.
Render ==
  /\ rpc \in {"h108", "s171", "a212"}
  /\ rpc' = "idle"
  /\ view' = NoView
  /\ UNCHANGED <<clock, script, players_dat, db, wdb, writer, dievars, outbox>>

-----------------------------------------------------------------------------
\* The users that may post to /die: the players and someone who is none.
Users == PlayerIDs(db) \cup {Stranger}

\* No other /die request is in flight.
Alone(r) == \A q \in Reqs \ {r} : pc[q] = "idle"

Next ==
  \E r \in Reqs :
    \/ \E v \in Users, lat \in Latitudes, lon \in Longitudes : Die114(r, v, lat, lon, NoProof)
    \/ Die129(r)
    \/ Busy(r)
    \/ Die130(r)
    \/ Die131(r)
    \/ Die133(r)
    \/ Raise(r)
    \/ Die135(r)
    \/ Die500(r)

\* Requests arrive at any time and overlap.
Spec == Init /\ [][Next]_vars

NextSeq ==
  \E r \in Reqs :
    \/ \E v \in Users, lat \in Latitudes, lon \in Longitudes : Alone(r) /\ Die114(r, v, lat, lon, NoProof)
    \/ Die129(r)
    \/ Die130(r)
    \/ Die131(r)
    \/ Die133(r)
    \/ Raise(r)
    \/ Die135(r)
    \/ Die500(r)

\* Each request is posted after the one before it has returned.
SpecSeq == Init /\ [][NextSeq]_vars

NextMail ==
  \/ NextSeq
  \/ \E r \in Reqs : Die135Raises(r)

\* Requests posted one after the other, with a sendmail that may fail to
\* start.
SpecMail == Init /\ [][NextMail]_vars

\* settings.py, lines 1-2 and 9.
NORMAL_ASSASSIN == "Regular"

WORD_ASSASSIN == "Word"

game_mode == WORD_ASSASSIN

\* The values the proof field of a posted form takes: none or a word.
Proofs == {NoProof} \cup Words

NextWord ==
  \E r \in Reqs :
    \/ \E v \in Users, prf \in Proofs : Alone(r) /\ Die114(r, v, "", "", prf)
    \/ Die129(r)
    \/ Die130(r)
    \/ Die131(r)
    \/ Die133(r)
    \/ Raise(r)
    \/ Die135(r)
    \/ Die500(r)

\* Games with secrets of any words; each request is posted after the one
\* before it has returned and carries a proof or none.
SpecWord == InitWord /\ [][NextWord]_vars

\* Time passes: datetime.now() (line 132) returns a later time from now on.
Tick ==
  /\ clock < MaxClock
  /\ clock' = clock + 1
  /\ UNCHANGED <<script, players_dat, db, wdb, writer, dievars, outbox, rpc, view>>

NextClock ==
  \/ \E r \in Reqs :
       \/ \E v \in Users : Die114(r, v, "", "", NoProof)
       \/ Die129(r)
       \/ Die130(r)
       \/ Die131(r)
       \/ Die133(r)
       \/ Raise(r)
       \/ Die135(r)
       \/ Die500(r)
  \/ Tick

\* Requests that overlap, each stamping its row of Kills with the time of
\* its INSERT, while time passes.
SpecClock == Init /\ [][NextClock]_vars

NextRead ==
  \/ NextSeq
  \/ \E u \in Users : Home89(u)
  \/ Home95
  \/ Home100
  \/ Stats146
  \/ Stats156
  \/ Stats165
  \/ Stats168
  \/ Admin183
  \/ Render

\* /die requests posted one after the other, and a read request at any time.
SpecRead == Init /\ [][NextRead]_vars

-----------------------------------------------------------------------------
(* The hunting ring *)

Living(d) == {p \in PlayerIDs(d) : d.Players[p].Alive}

RECURSIVE Hunt(_, _, _)
\* The player reached from p by following TargetID n times.
Hunt(d, p, n) == IF n = 0 THEN p ELSE d.Players[Hunt(d, p, n - 1)].TargetID

\* Following TargetID from any living player returns to that player after
\* visiting every living player exactly once.
SingleCycle(d) ==
  \A p \in Living(d) :
    /\ Hunt(d, p, Cardinality(Living(d))) = p
    /\ {Hunt(d, p, i) : i \in 1..Cardinality(Living(d))} = Living(d)

\* Exactly one player is alive and hunts themself.
Winner(d) == \E p \in PlayerIDs(d) : Living(d) = {p} /\ d.Players[p].TargetID = p

Victory == "Congratulations!"

Eliminated == "Target Successfully Eliminated"

Last(q) == q[Len(q)]

\* No /die request is in flight.
Quiet == \A r \in Reqs : pc[r] = "idle"

\* The step appends one row to the committed Kills table.
Appends == Len(db'.Kills) = Len(db.Kills) + 1 /\ SubSeq(db'.Kills, 1, Len(db.Kills)) = db.Kills

\* Request r is rejected in this step: its handler raises.
Rejects(r) == pc[r] \notin Raised /\ pc'[r] \in Raised

-----------------------------------------------------------------------------
(* Claims *)

\* C1: in every state reached from a roster of parse.py through /die requests
\* posted one after the other, the TargetID edges from any living player lead
\* back to that player after visiting every living player exactly once.
C1_SingleCycle == SingleCycle(db)

\* C2: on a roster of N players, when N-1 eliminations have been reported one
\* after the other and accepted, exactly one Victory mail has been sent, for
\* the last of them, and the only living player is its receiver.
C2_TerminalConvergence ==
  LET n == Cardinality(PlayerIDs(db))
  IN  (Quiet /\ Len(db.Kills) = n - 1 /\ Len(outbox) = n - 1) =>
        /\ Cardinality(Living(db)) = 1
        /\ n > 1 =>
             /\ outbox[n - 1].Subject = Victory
             /\ \A i \in 1..(n - 2) : outbox[i].Subject # Victory
             /\ Living(db) = {outbox[n - 1].To}

\* C3: every row (killer, victim) appended to Kills has killer.TargetID =
\* victim in the state just before the transition, and a request for which
\* no player hunts a living victim is rejected with the database unchanged.
C3_WrongTargetRejected ==
  [][/\ db'.Kills # db.Kills =>
          /\ Appends
          /\ db.Players[Last(db'.Kills).KillerID].TargetID = Last(db'.Kills).VictimID
     /\ \A r \in Reqs :
          (pc[r] = "idle" /\ pc'[r] # "idle" /\
             ~\E k \in PlayerIDs(db) : db.Players[k].TargetID = sunetid'[r]) =>
            (Rejects(r) /\ db' = db)]_vars

\* C3 witness: an elimination has just been committed for the killer that
\* hunted the victim.
C3_Witness ==
  \E r \in Reqs :
    /\ pc[r] = "l135"
    /\ Last(db.Kills).KillerID = row[r][1].PlayerID
    /\ Last(db.Kills).VictimID = sunetid[r]

\* C4: a request whose victim is already dead is rejected and leaves the
\* database as the first, accepted, request left it; no victim ever has a
\* second row in Kills.
C4_DeadVictimRejected ==
  /\ [](\A i, j \in 1..Len(db.Kills) :
          db.Kills[i].VictimID = db.Kills[j].VictimID => i = j)
  /\ [][\A r \in Reqs :
          (pc[r] = "idle" /\ pc'[r] # "idle" /\ sunetid'[r] \in PlayerIDs(db)
             /\ ~db.Players[sunetid'[r]].Alive) =>
            (pc'[r] = "TypeError" /\ db' = db)]_vars

\* C4 witness: the second report of an elimination already in Kills has been
\* rejected.
C4_Witness ==
  \E r \in Reqs :
    /\ pc[r] = "TypeError"
    /\ sunetid[r] \in PlayerIDs(db)
    /\ \E i \in 1..Len(db.Kills) : db.Kills[i].VictimID = sunetid[r]

\* C5: a step in which a /die request is rejected (its handler raises, for a
\* dead or unknown victim, a malformed location or a failed statement) leaves
\* Players and Kills as they were, and no rejected request holds the write lock.
C5_RejectionChangesNothing ==
  [][\A r \in Reqs : Rejects(r) => (db' = db /\ writer' # r /\ wdb' = db)]_vars

\* C5 witness: a report by a living victim with a hunter has been rejected for
\* its malformed location, after an elimination was accepted.
C5_Witness ==
  \E r \in Reqs :
    /\ pc[r] = "ValueError"
    /\ row[r] # NoRow
    /\ db.Players[sunetid[r]].Alive
    /\ Len(db.Kills) > 0

\* C6: once a winner exists (one living player, hunting themself), no /die
\* request changes Players or Kills any more.
C6_GameOver == [][Winner(db) => db' = db]_vars

-----------------------------------------------------------------------------
(* Requests run one after the other *)

\* die() run alone for the victim of the Kills row rec with rec's killer as
\* the fetched row: the database after its commit, in a set; the empty set
\* when the SELECT of lines 114-121 has no such row.
DieAlone(d, rec) ==
  IF rec.VictimID \in PlayerIDs(d)
       /\ DieRow(d, rec.KillerID, rec.VictimID)
            \in DieRows(d, rec.VictimID)
    THEN {InsertKill(SetTarget(SetDead(d, rec.VictimID), rec.KillerID,
                               d.Players[rec.VictimID].TargetID),
                     rec.KillerID, rec.VictimID, rec.Time, rec.Latitude,
                     rec.Longitude)}
    ELSE {}

RECURSIVE DieInTurn(_, _)
\* The requests of the rows recs run alone one after the other from d.
DieInTurn(d, recs) ==
  IF recs = <<>> THEN {d}
  ELSE UNION {DieInTurn(e, Tail(recs)) : e \in DieAlone(d, Head(recs))}

\* The database the game started from.
FirstDb == [Players |-> players_dat, Kills |-> <<>>]

\* The committed databases there have been, when requests ran one after the
\* other: one per prefix of Kills.
History == UNION {DieInTurn(FirstDb, SubSeq(db.Kills, 1, j)) : j \in 0..Len(db.Kills)}

\* The accepted requests in the order o of the rows of Kills.
Reordered(o) == [i \in 1..Len(db.Kills) |-> db.Kills[o[i]]]

\* C7: the committed Players table is the one that running the accepted
\* requests alone, one after the other in some order, produces.
C7_Serialised ==
  \E o \in Orderings(1..Len(db.Kills)) :
    \E e \in DieInTurn(FirstDb, Reordered(o)) : e.Players = db.Players

\* No row of Kills has the victim as its own killer.
NoSelfKill == \A i \in 1..Len(db.Kills) : db.Kills[i].KillerID # db.Kills[i].VictimID

\* C8: when players are eliminated by other players, no victim has more than
\* one row in Kills, however the reports overlap.
C8_OneRecordPerVictim ==
  NoSelfKill =>
    \A i, j \in 1..Len(db.Kills) : db.Kills[i].VictimID = db.Kills[j].VictimID => i = j

\* C9: every step that changes the committed database is the commit of one
\* request and shows all three effects of it at once: the victim dead, the
\* killer's TargetID set to the target read for the victim, one row appended
\* to Kills; a request that fails part-way changes nothing.
C9_Atomic ==
  [][/\ db' # db =>
          \E r \in Reqs :
            /\ pc[r] = "l133" /\ pc'[r] = "l135"
            /\ ~db'.Players[sunetid[r]].Alive
            /\ db'.Players[row[r][1].PlayerID].TargetID = row[r][1].TargetID
            /\ Appends
            /\ Last(db'.Kills).KillerID = row[r][1].PlayerID
            /\ Last(db'.Kills).VictimID = sunetid[r]
     /\ \A r \in Reqs : Rejects(r) => db' = db]_vars

\* C9 witness: a request that had executed its first UPDATE has failed, and
\* its victim is still alive in the committed database.
C9_Witness ==
  \E r \in Reqs :
    /\ pc[r] = "Error"
    /\ db.Players[sunetid[r]].Alive
    /\ db.Players[row[r][1].PlayerID].TargetID = sunetid[r]

\* What the templates would show of the database d, for the read request at
\* its last line.
Shows(d) ==
  CASE rpc = "h108" ->
         /\ view.player = HomePlayer(d, view.user)
         /\ view.num_alive = NumAlive(d)
         /\ view.player # NoRow => view.kills = HomeKills(d, view.user)
    [] rpc = "s171" ->
         /\ view.top_scores \in TopScores(d)
         /\ view.recent_deaths = RecentDeaths(d)
         /\ view.num_alive = NumAlive(d)
         /\ view.num_dead = NumDead(d)
    [] rpc = "a212" -> view.players = <<AdminPlayers(d)>>
    [] OTHER -> TRUE

\* C10: when players are eliminated by other players, what a read request
\* renders is what one committed database, before or after each elimination,
\* shows.
C10_ReadsSeeWholeTransitions == NoSelfKill => \E d \in History : Shows(d)

\* C11: every accepted report appends one row (K, V) to Kills, and in the
\* database it commits K's TargetID is the TargetID V had in the database
\* just before, V is dead and V was alive before.
C11_KillerInheritsTarget ==
  [][db'.Kills # db.Kills =>
       /\ Appends
       /\ db.Players[Last(db'.Kills).VictimID].Alive
       /\ ~db'.Players[Last(db'.Kills).VictimID].Alive
       /\ db'.Players[Last(db'.Kills).KillerID].TargetID =
            db.Players[Last(db'.Kills).VictimID].TargetID]_vars

\* C11 witness: in a ring of three or more, the report of a victim hunted by
\* another player has been committed: the victim is dead and the killer
\* hunts the player the victim hunted, who is neither of them.
C11_Witness ==
  \E r \in Reqs :
    /\ pc[r] = "l135"
    /\ row[r][1].PlayerID # sunetid[r]
    /\ ~db.Players[sunetid[r]].Alive
    /\ db.Players[row[r][1].PlayerID].TargetID = db.Players[sunetid[r]].TargetID
    /\ db.Players[sunetid[r]].TargetID \notin {sunetid[r], row[r][1].PlayerID}

\* C12: no step changes the TargetID of a player who is dead.
C12_DeadTargetFrozen ==
  [][\A p \in PlayerIDs(db) :
       ~db.Players[p].Alive => db'.Players[p].TargetID = db.Players[p].TargetID]_vars

\* C13: the TargetID of every living player is the id of a living player.
C13_NoLivingHuntsDead ==
  \A p \in Living(db) : db.Players[p].TargetID \in Living(db)

\* C14: when two or more players are alive, no two of them have the same
\* TargetID.
C14_LivingTargetsDistinct ==
  Cardinality(Living(db)) > 1 =>
    \A p, q \in Living(db) : db.Players[p].TargetID = db.Players[q].TargetID => p = q

\* C14 witness: an elimination has been committed and two or more players
\* are still alive.
C14_Witness == Len(db.Kills) > 0 /\ Cardinality(Living(db)) > 1

\* C15: a living player whose TargetID is the player's own id is the only
\* living player.
C15_SelfTargetOnlyAlone ==
  \A p \in Living(db) : db.Players[p].TargetID = p => Living(db) = {p}

\* C15 witness: after an elimination one player is alive and hunts themself.
C15_Witness == Len(db.Kills) > 0 /\ Winner(db)

\* C16: the mail a request sends after its commit is the Victory mail exactly
\* when, in the database the request committed, the killer is alive, is the
\* only living player and has the own id as TargetID; otherwise it is the
\* Eliminated mail.
C16_VictoryIffSoleSurvivor ==
  [][\A r \in Reqs :
       (pc[r] = "l135" /\ pc'[r] = "idle") =>
         /\ Len(outbox') = Len(outbox) + 1
         /\ Last(outbox').Subject \in {Victory, Eliminated}
         /\ Last(outbox').Subject = Victory <=>
              /\ db.Players[row[r][1].PlayerID].Alive
              /\ Living(db) = {row[r][1].PlayerID}
              /\ db.Players[row[r][1].PlayerID].TargetID = row[r][1].PlayerID]_vars

\* C17: no step makes a dead player alive.
C17_AliveOnlyFalls ==
  [][\A p \in PlayerIDs(db) : ~db.Players[p].Alive => ~db'.Players[p].Alive]_vars

\* C17 witness: a report has been committed while another player was dead
\* already, and that player is still dead.
C17_Witness ==
  \E r \in Reqs :
    /\ pc[r] = "l135"
    /\ \E p \in PlayerIDs(db) \ {sunetid[r]} :
         /\ ~db.Players[p].Alive
         /\ \E i \in 1..(Len(db.Kills) - 1) : db.Kills[i].VictimID = p

\* C18: in word mode a report of a player hunted by another player is
\* accepted (its transaction commits) only when the proof it carries is the
\* victim's Secret, and such a report whose proof is missing or is not that
\* Secret is rejected with the database unchanged.
C18_ProofChecked ==
  [][game_mode = WORD_ASSASSIN =>
       /\ (db' # db /\ NoSelfKill') =>
            \E r \in Reqs :
              pc[r] = "l133" /\ proof[r] = db.Players[sunetid[r]].Secret
       /\ \A r \in Reqs :
            (pc[r] = "idle" /\ pc'[r] # "idle" /\ sunetid'[r] \in PlayerIDs(db)
               /\ db.Players[sunetid'[r]].TargetID # sunetid'[r]
               /\ proof'[r] # db.Players[sunetid'[r]].Secret) =>
              (Rejects(r) /\ db' = db)]_vars

\* No element occurs twice in the sequence q.
Unique(q) == \A i, j \in 1..Len(q) : q[i] = q[j] => i = j

\* The ids of the entrants, in the order readlist left them: ids without the
\* first id appended at line 23.
EntrantIds == SubSeq(ids, 1, Len(ids) - 1)

\* C19: when parse.py has run to its end on entrants with pairwise different
\* ids, players.dat has one row per entrant, the TargetIDs of its rows are
\* pairwise different and are the PlayerIDs, following TargetID from any
\* player visits every player once and returns, no row has TargetID =
\* PlayerID when there are two or more rows, and the only row has when there
\* is one.
C19_RosterIsOneCycle ==
  (ppc = "done" /\ Unique(EntrantIds)) =>
    LET dat == output[1]
        N == Len(dat)
    IN  /\ N = Len(EntrantIds)
        /\ {dat[i].PlayerID : i \in 1..N} = {EntrantIds[i] : i \in 1..N}
        /\ {dat[i].TargetID : i \in 1..N} = {dat[i].PlayerID : i \in 1..N}
        /\ \A i, j \in 1..N : dat[i].TargetID = dat[j].TargetID => i = j
        /\ SingleCycle([Players |-> LoadPlayers(dat)])
        /\ N > 1 => \A i \in 1..N : dat[i].TargetID # dat[i].PlayerID
        /\ N = 1 => dat[1].TargetID = dat[1].PlayerID

\* C19 witness: the script has written the roster of three entrants with
\* pairwise different ids.
C19_Witness ==
  /\ ppc = "done"
  /\ Unique(EntrantIds)
  /\ Len(output[1]) = 3

\* C20: when two entrants have the same id (and the words file has a word
\* for every entrant), parse.py does not run to its end and writes no
\* players.dat.
C20_DuplicateIdsFail ==
  (ids # <<>> /\ ~Unique(EntrantIds) /\ Len(words) >= Len(EntrantIds)) =>
    (ppc # "done" /\ output = NoFile)

\* C21: when the names file (of entrants with pairwise different ids) has no
\* line or the words file has fewer words than the names file has lines,
\* parse.py does not run to its end and no row is written to players.dat.
C21_BadInputWritesNothing ==
  (/\ Unique(Ids(folder.names))
   /\ Len(folder.names) = 0 \/ Len(folder.words) < Len(folder.names)) =>
    /\ ppc # "done"
    /\ output # NoFile => output[1] = <<>>

\* C22: when parse.py has run to its end, players.dat has one row per line
\* of the names file, in the order of the shuffled lines: row i has the id
\* of line i with the name that stands beside that id, a TargetID that is
\* the id of an entrant, the i-th word as Secret and Alive = True.
C22_OneRowPerEntrant ==
  ppc = "done" =>
    LET dat == output[1]
    IN  /\ Len(dat) = Len(EntrantIds)
        /\ \A i \in 1..Len(dat) :
             /\ dat[i].PlayerID = EntrantIds[i]
             /\ dat[i].Name = Name(dat[i].PlayerID)
             /\ dat[i].TargetID \in {EntrantIds[j] : j \in 1..Len(EntrantIds)}
             /\ dat[i].Secret = words[i]
             /\ dat[i].Secret \in Words
             /\ dat[i].Alive = TRUE

\* C22 witness: the script has written the rows of three entrants of which
\* two have different ids.
C22_Witness ==
  /\ ppc = "done"
  /\ Len(output[1]) = 3
  /\ output[1][1].PlayerID # output[1][3].PlayerID

\* C23: every step that changes Kills appends one row and leaves the rows
\* there were as they were, and every commit of a /die request is such a
\* step, however the requests overlap.
C23_KillsAppendOnly ==
  [][/\ db'.Kills # db.Kills => Appends
     /\ \A r \in Reqs : (pc[r] = "l133" /\ pc'[r] = "l135") => Appends]_vars

\* C23 witness: a request has committed its row behind a row of another
\* victim that was in Kills before.
C23_Witness ==
  \E r \in Reqs :
    /\ pc[r] = "l135"
    /\ Len(db.Kills) > 1
    /\ Last(db.Kills).VictimID = sunetid[r]
    /\ db.Kills[1].VictimID # sunetid[r]

\* C24: when send_email raises after a request has committed, that step and
\* the return of the 500 answer leave the database as committed: the victim
\* is dead, the killer has the TargetID read for the victim and the row of
\* the elimination is the last of Kills.
C24_MailFailureKeepsCommit ==
  [][\A r \in Reqs :
       ((pc[r] = "l135" /\ pc'[r] = "OSError") \/ pc[r] = "OSError") =>
         /\ db' = db
         /\ ~db'.Players[sunetid[r]].Alive
         /\ db'.Players[row[r][1].PlayerID].TargetID = row[r][1].TargetID
         /\ Last(db'.Kills).KillerID = row[r][1].PlayerID
         /\ Last(db'.Kills).VictimID = sunetid[r]]_vars

\* C24 witness: send_email has raised for a committed request whose victim
\* was hunted by another player; the victim is dead and the row is in Kills.
C24_Witness ==
  \E r \in Reqs :
    /\ pc[r] = "OSError"
    /\ row[r][1].PlayerID # sunetid[r]
    /\ ~db.Players[sunetid[r]].Alive
    /\ Last(db.Kills).VictimID = sunetid[r]

\* C25: the Eliminated mail a request hands to send_email after its commit
\* goes to the killer and carries the Name and the Secret of the player
\* whose id is the killer's TargetID in the committed database.
C25_MailNamesNewTarget ==
  [][\A r \in Reqs :
       (pc[r] = "l135" /\ pc'[r] # "l135" /\ Last(outbox').Subject = Eliminated) =>
         LET killer == row[r][1].PlayerID
             target == db'.Players[killer].TargetID
         IN  /\ Len(outbox') = Len(outbox) + 1
             /\ Last(outbox').To = killer
             /\ Last(outbox').victim = db'.Players[target].Name
             /\ Last(outbox').secret = db'.Players[target].Secret]_vars

\* C25 witness: an Eliminated mail has been sent that carries the name and
\* secret of the killer's new target, whose secret is not the victim's.
C25_Witness ==
  /\ Quiet
  /\ Len(outbox) > 0
  /\ Last(outbox).Subject = Eliminated
  /\ Last(outbox).secret = db.Players[db.Players[Last(outbox).To].TargetID].Secret
  /\ Last(outbox).secret # db.Players[Last(db.Kills).VictimID].Secret
  /\ Last(outbox).victim # db.Players[Last(db.Kills).VictimID].Name

\* C26: a step of home, stats or admin (a query or the rendering) leaves the
\* Players and Kills tables, the roster and the mails as they were: every
\* player's Alive, TargetID and Secret and every row of Kills are unchanged.
C26_ReadsChangeNothing ==
  [][(rpc' # rpc \/ view' # view) =>
       /\ db' = db
       /\ wdb' = wdb
       /\ writer' = writer
       /\ players_dat' = players_dat
       /\ outbox' = outbox]_vars

\* C26 witness: stats has run all its queries after an elimination and
\* counted the dead, and the elimination is still in Kills.
C26_Witness ==
  /\ rpc = "s171"
  /\ view.num_dead > 0
  /\ Len(db.Kills) > 0
  /\ view.recent_deaths # <<>>

\* The killers: the players with a row in Kills as KillerID.
Killers(d) == {d.Kills[i].KillerID : i \in 1..Len(d.Kills)}

C28_KillerIsNotVictim ==
  [][db'.Kills # db.Kills =>
       (Last(db'.Kills).KillerID = Last(db'.Kills).VictimID =>
          /\ Living(db) = {Last(db'.Kills).VictimID}
          /\ Winner(db))]_vars

\* C28 witness: Kills holds a row of two different players and a later row
\* of one player, the last survivor.
C28_Witness ==
  /\ Len(db.Kills) > 1
  /\ db.Kills[1].KillerID # db.Kills[1].VictimID
  /\ Last(db.Kills).KillerID = Last(db.Kills).VictimID
  /\ Living(db) = {}

\* C29: a step that changes the committed database is the commit of one
\* request, with killer K (the fetched row) and victim V, and changes only
\* this: V's Alive from true to false, K's TargetID, and one row (K, V)
\* appended to Kills. The set of players, the Name and Secret of every
\* player, the Alive of every player but V and the TargetID of every player
\* but K are as before.
C29_Frame ==
  [][db' # db =>
       \E r \in Reqs :
         LET K == row[r][1].PlayerID
             V == sunetid[r]
         IN  /\ pc[r] = "l133" /\ pc'[r] = "l135"
             /\ PlayerIDs(db') = PlayerIDs(db)
             /\ db.Players[V].Alive /\ ~db'.Players[V].Alive
             /\ \A p \in PlayerIDs(db) :
                  /\ db'.Players[p].Name = db.Players[p].Name
                  /\ db'.Players[p].Secret = db.Players[p].Secret
                  /\ p # V => db'.Players[p].Alive = db.Players[p].Alive
                  /\ p # K => db'.Players[p].TargetID = db.Players[p].TargetID
             /\ Appends
             /\ Last(db'.Kills).KillerID = K
             /\ Last(db'.Kills).VictimID = V]_vars

\* C29 witness: in a game of three an elimination has been committed, and
\* the player who is neither its killer nor its victim is as the roster
\* had them.
C29_Witness ==
  \E r \in Reqs :
    /\ pc[r] = "l135"
    /\ Len(db.Kills) = 1
    /\ \E p \in PlayerIDs(db) \ {sunetid[r], row[r][1].PlayerID} :
         db.Players[p] = players_dat[p]
    /\ db.Players[row[r][1].PlayerID].TargetID # players_dat[row[r][1].PlayerID].TargetID

\* C30: the row home fetches for a player is that player's row of the
\* database committed when the query runs: the player's TargetID and Alive
\* flag of that database, with the Name and Secret of the player whose id
\* that TargetID is; for a user who is no player it is no row.
C30_HomeShowsCurrentTarget ==
  [][(rpc = "idle" /\ rpc' = "h95") =>
       LET u == view'.user
       IN  IF u \in PlayerIDs(db)
             THEN /\ Len(view'.player) = 1
                  /\ view'.player[1].PlayerID = u
                  /\ view'.player[1].TargetID = db.Players[u].TargetID
                  /\ view'.player[1].Alive = db.Players[u].Alive
                  /\ view'.player[1].TargetName =
                       db.Players[db.Players[u].TargetID].Name
                  /\ view'.player[1].TargetSecret =
                       db.Players[db.Players[u].TargetID].Secret
             ELSE view'.player = NoRow]_vars

\* C30 witness: home has fetched the row of a living player whose target an
\* elimination has changed, and the row names the new target.
C30_Witness ==
  /\ rpc = "h95"
  /\ view.player # NoRow
  /\ view.player[1].Alive
  /\ view.player[1].TargetID # players_dat[view.user].TargetID
  /\ view.player[1].TargetName = Name(db.Players[view.user].TargetID)

\* C31: when players are eliminated by other players, every row of Kills has
\* either no coordinate equal to the value stored for an empty field or both
\* coordinates equal to it.
C31_LocationPairOrSentinel ==
  NoSelfKill =>
    \A i \in 1..Len(db.Kills) :
      (db.Kills[i].Latitude = NotProvided) <=> (db.Kills[i].Longitude = NotProvided)

\* Lines 198-204: the rows of Kills whose Time is the greatest Time of the
\* rows of their killer.
Recent(d) ==
  {rec \in {d.Kills[i] : i \in 1..Len(d.Kills)} :
     \A j \in 1..Len(d.Kills) :
       d.Kills[j].KillerID = rec.KillerID => d.Kills[j].Time <= rec.Time}

\* C32: of two rows of Kills with the same killer, the one inserted later
\* has no earlier Time, however the reports overlap, and so the row a killer
\* inserted last is among the rows with that killer's greatest Time.
C32_TimesRisePerKiller ==
  /\ \A i, j \in 1..Len(db.Kills) :
       (i < j /\ db.Kills[i].KillerID = db.Kills[j].KillerID) =>
         db.Kills[i].Time <= db.Kills[j].Time
  /\ \A i \in 1..Len(db.Kills) :
       (\A j \in (i + 1)..Len(db.Kills) : db.Kills[j].KillerID # db.Kills[i].KillerID) =>
         db.Kills[i] \in Recent(db)

\* C32 witness: a killer has two rows of Kills, inserted at different times
\* by requests that overlapped, and the later one is the only row of
\* lines 198-204 for that killer.
C32_Witness ==
  /\ Len(db.Kills) >= 2
  /\ db.Kills[1].KillerID = db.Kills[2].KillerID
  /\ db.Kills[1].KillerID # db.Kills[1].VictimID
  /\ db.Kills[1].Time < db.Kills[2].Time
  /\ db.Kills[2] \in Recent(db)
  /\ db.Kills[1] \notin Recent(db)
  /\ pc[1] = "l135" /\ pc[2] = "l135"

\* The orders of the lines of a file.
Orders(file) ==
  {q \in [1..Len(file) -> {file[i] : i \in 1..Len(file)}] :
     \E s \in Shuffles(Len(file)) : \A i \in 1..Len(file) : q[i] = file[s[i]]}

\* C33: line 16 can leave the names in every order of the lines of the names
\* file; whatever order it left them in, line 17 can leave the words in
\* every order of the lines of the words file; and when the script has run
\* to its end, row i of players.dat has the i-th id, the (i+1)-th id (the
\* first for the last row) as TargetID and the i-th word as Secret, so no
\* position of the words is given to two rows.
C33_ShufflesIndependent ==
  /\ ppc = "l16" => \A n \in Orders(folder.names) : ENABLED (Parse16 /\ names' = n)
  /\ ppc = "l17" => \A w \in Orders(folder.words) : ENABLED (Parse17 /\ words' = w)
  /\ ppc \notin {"l16", "l17"} => words \in Orders(folder.words)
  /\ ppc \in {"l25", "done"} =>
       EntrantIds \in {Ids(n) : n \in Orders(folder.names)}
  /\ ppc = "done" =>
       LET dat == output[1]
           N == Len(EntrantIds)
       IN  /\ Len(dat) = N
           /\ \A i \in 1..N :
                /\ dat[i].PlayerID = EntrantIds[i]
                /\ dat[i].TargetID = EntrantIds[(i % N) + 1]
                /\ dat[i].Secret = words[i]

\* C33 witness: the script has run to its end on three entrants of
\* different ids and two different words, with the names left in another
\* order than the file has them and the words in the order of the file.
C33_Witness ==
  /\ ppc = "done"
  /\ Len(output[1]) = 3
  /\ Unique(EntrantIds)
  /\ EntrantIds # Ids(folder.names)
  /\ words = folder.words
  /\ \E i, j \in 1..Len(words) : words[i] # words[j]

\* C34: while two or more players are alive, the killer of the row of Kills
\* a commit appends is a player who was alive in the database committed just
\* before, and no commit changes the TargetID of a dead player while a
\* living player hunts the victim.
C34_KillerIsAlive ==
  [][\A r \in Reqs :
       (pc[r] = "l133" /\ pc'[r] = "l135" /\ Cardinality(Living(db)) > 1) =>
         LET K == Last(db'.Kills).KillerID
             V == Last(db'.Kills).VictimID
         IN  /\ db.Players[K].Alive
             /\ (\E p \in Living(db) : db.Players[p].TargetID = V) =>
                  \A q \in PlayerIDs(db) \ Living(db) :
                    db'.Players[q].TargetID = db.Players[q].TargetID]_vars

\* C35: when players are eliminated by other players, Kills has as many rows
\* as the count of line 168 finds dead players, no player is the victim of
\* two rows, and the counts of lines 165 and 168 add up to the number of
\* rows of Players.
C35_CountsAgree ==
  NoSelfKill =>
    /\ Len(db.Kills) = NumDead(db)
    /\ \A i, j \in 1..Len(db.Kills) :
         i # j => db.Kills[i].VictimID # db.Kills[j].VictimID
    /\ NumAlive(db) + NumDead(db) = Cardinality(PlayerIDs(db))

=============================================================================
